---- MODULE Spec2Model ----
(***************************************************************************)
(* RNTupleInspector (tree/ntupleutil/v7/src/RNTupleInspector.cxx).         *)
(*                                                                         *)
(* The inspector clones the descriptor of an RNTuple, collects per-column  *)
(* statistics in one pass over columns x clusters x pages                  *)
(* (CollectColumnInfo), folds them up the field tree (CollectFieldInfo)    *)
(* and then serves lookups and counts from the two tables.                 *)
(***************************************************************************)
EXTENDS Integers, Sequences, FiniteSets, TLC

\* ------------------------------------------------------------------ bounds
MaxFields == 3
MaxPhysical == 2
MaxClusters == 2
MaxCells == 4
MaxPages == 2

\* ------------------------------------------------- descriptor (collaborator)
kInvalidDescriptorId == 0 - 1

\* The unset value of fCompressionSettings, tested at line 62.
kUnsetCompression == 0 - 1

FieldKinds == {"record", "double", "string", "projected"}

\* Type name a field of each kind carries in its field descriptor.
TypeNameOf(kind) ==
    CASE kind = "record" -> "MyStruct"
      [] kind = "double" -> "double"
      [] kind = "string" -> "std::string"
      [] kind = "projected" -> "double"
      [] OTHER -> ""

\* Number of physical columns a field of each kind owns directly.
NOwnColumns(kind) ==
    CASE kind = "double" -> 1
      [] kind = "string" -> 2
      [] OTHER -> 0

\* RColumnElementBase::Generate(colType)->GetSize()
ElemSize(colType) ==
    CASE colType = "kReal64" -> 8
      [] colType = "kIndex32" -> 4
      [] colType = "kChar" -> 1
      [] OTHER -> 0

RECURSIVE PhysBase(_, _)
\* Id of the first physical column of field f: columns are numbered field by field.
PhysBase(kind, f) ==
    IF f = 0 THEN 0 ELSE PhysBase(kind, f - 1) + NOwnColumns(kind[f - 1])

RECURSIVE AliasRank(_, _)
\* Number of projected fields with an id below f.
AliasRank(kind, f) ==
    IF f = 0 THEN 0
    ELSE AliasRank(kind, f - 1) + (IF kind[f - 1] = "projected" THEN 1 ELSE 0)

\* The column descriptors of a schema: the physical columns first (logical id =
\* physical id), then one alias column per projected field.
ColumnsOf(nF, kind, aliasTarget) ==
    LET nPhys == PhysBase(kind, nF)
        nAlias == AliasRank(kind, nF)
        owner(c) == CHOOSE f \in 0..(nF - 1) :
                        /\ PhysBase(kind, f) <= c
                        /\ c < PhysBase(kind, f) + NOwnColumns(kind[f])
        proj(r) == CHOOSE f \in 0..(nF - 1) :
                        kind[f] = "projected" /\ AliasRank(kind, f) = r
        physType(c) ==
            LET f == owner(c) IN
            IF kind[f] = "double" THEN "kReal64"
            ELSE IF c = PhysBase(kind, f) THEN "kIndex32" ELSE "kChar"
    IN [c \in 0..(nPhys + nAlias - 1) |->
          IF c < nPhys
          THEN [logicalId |-> c, physicalId |-> c, fieldId |-> owner(c),
                type |-> physType(c), isAlias |-> FALSE]
          ELSE [logicalId |-> c, physicalId |-> aliasTarget[proj(c - nPhys)],
                fieldId |-> proj(c - nPhys),
                type |-> physType(aliasTarget[proj(c - nPhys)]), isAlias |-> TRUE]]

MakeDescriptor(nF, parent, kind, aliasTarget, nCl, cells) ==
    [nFields |-> nF,
     parentId |-> parent,
     typeName |-> [f \in 0..(nF - 1) |-> IF f = 0 THEN "" ELSE TypeNameOf(kind[f])],
     nPhysical |-> PhysBase(kind, nF),
     columns |-> ColumnsOf(nF, kind, aliasTarget),
     nClusters |-> nCl,
     cells |-> cells]

RECURSIVE ReachesRoot(_, _, _)
ReachesRoot(parent, f, fuel) ==
    IF f = 0 THEN TRUE
    ELSE IF fuel = 0 THEN FALSE
    ELSE ReachesRoot(parent, parent[f], fuel - 1)

\* parent functions of the field trees with nF fields rooted at field zero
FieldTrees(nF) ==
    {p \in [0..(nF - 1) -> (0..(nF - 1)) \cup {kInvalidDescriptorId}] :
        /\ p[0] = kInvalidDescriptorId
        /\ \A f \in 1..(nF - 1) : p[f] # kInvalidDescriptorId /\ p[f] # f
        /\ \A f \in 1..(nF - 1) : ReachesRoot(p, f, nF)}

\* Page j of a page range in the size family.
PageAt(j) == [fNElements |-> 1 + (j % 2), fBytesOnStorage |-> j + 1]

PageRanges == {[j \in 1..len |-> PageAt(j)] : len \in 0..MaxPages}

AbsentCell == [contains |-> FALSE, fNElements |-> 0,
               fCompressionSettings |-> kUnsetCompression, fPageInfos |-> <<>>]

\* cells whose compression setting varies (one page each)
CompressionCells ==
    {AbsentCell} \cup
    {[contains |-> TRUE, fNElements |-> 1, fCompressionSettings |-> cs,
      fPageInfos |-> <<[fNElements |-> 1, fBytesOnStorage |-> 2]>>] :
        cs \in {kUnsetCompression, 5, 7}}

\* cells whose element count and page range vary (one compression setting); the
\* column range's element count need not agree with the pages' counts
SizeCells ==
    {AbsentCell} \cup
    {[contains |-> TRUE, fNElements |-> n, fCompressionSettings |-> 5,
      fPageInfos |-> pr] : n \in {1, 3}, pr \in PageRanges}

\* the cell of column c in the single cluster of the field-tree family
TreeCell(c) ==
    [contains |-> TRUE, fNElements |-> c + 1, fCompressionSettings |-> 5,
     fPageInfos |-> <<[fNElements |-> c + 1, fBytesOnStorage |-> 2 ^ c]>>]

Shapes ==
    {s \in (1..MaxPhysical) \X (1..MaxClusters) : s[1] * s[2] <= MaxCells}

\* flat schemas (every column in a "double" field under the root) over clusters
FlatDescriptors(cellChoices) ==
    UNION {
      {MakeDescriptor(s[1] + 1,
                      [f \in 0..s[1] |-> IF f = 0 THEN kInvalidDescriptorId ELSE 0],
                      [f \in 0..s[1] |-> IF f = 0 THEN "record" ELSE "double"],
                      <<>>, s[2], cells) :
          cells \in [(0..(s[2] - 1)) \X (0..(s[1] - 1)) -> cellChoices]}
      : s \in Shapes}

\* nested schemas with alias columns over one cluster
TreeDescriptors ==
    UNION { UNION { UNION {
      {MakeDescriptor(nF, parent, kind, aliasTarget, 1,
                      [x \in {0} \X (0..(PhysBase(kind, nF) - 1)) |-> TreeCell(x[2])]) :
          aliasTarget \in [{f \in 0..(nF - 1) : kind[f] = "projected"} ->
                              0..(PhysBase(kind, nF) - 1)]}
      : kind \in {k \in [0..(nF - 1) -> FieldKinds] : k[0] = "record"}}
      : parent \in FieldTrees(nF)}
      : nF \in 1..MaxFields}

Descriptors ==
    TreeDescriptors \cup FlatDescriptors(CompressionCells) \cup FlatDescriptors(SizeCells)


\* -------------------------------------------------------- descriptor reads
GetNPhysicalColumns(desc) == desc.nPhysical

GetNFields(desc) == desc.nFields

GetFieldZeroId(desc) == 0

GetFieldDescriptor(desc, fieldId) ==
    [id |-> fieldId, parentId |-> desc.parentId[fieldId],
     typeName |-> desc.typeName[fieldId]]

RECURSIVE SortedIds(_, _, _)
\* the ids lo..(hi - 1) that are in the set keep, ascending
SortedIds(lo, hi, keep) ==
    IF lo >= hi THEN <<>>
    ELSE (IF lo \in keep THEN <<lo>> ELSE <<>>) \o SortedIds(lo + 1, hi, keep)

\* the column descriptors attached to a field, alias columns included
GetColumnIterable(desc, fieldId) ==
    LET ids == SortedIds(0, Cardinality(DOMAIN desc.columns),
                         {c \in DOMAIN desc.columns : desc.columns[c].fieldId = fieldId})
    IN [i \in 1..Len(ids) |-> desc.columns[ids[i]]]

\* the ids of the direct sub-fields of a field
GetFieldIterable(desc, fieldId) ==
    SortedIds(0, desc.nFields,
              {f \in 0..(desc.nFields - 1) : desc.parentId[f] = fieldId})

ContainsColumn(desc, cluster, col) == desc.cells[<<cluster, col>>].contains

GetColumnRange(desc, cluster, col) == desc.cells[<<cluster, col>>]

GetPageRange(desc, cluster, col) == desc.cells[<<cluster, col>>].fPageInfos

\* ------------------------------------------------------------------- state
VARIABLES
    fDescriptor,          \* the cloned descriptor
    fCompressionSettings,
    fOnDiskSize,
    fInMemorySize,
    fColumnInfo,          \* physical column id -> RColumnInfo
    fFieldInfo,           \* field id -> RFieldTreeInfo
    pc,                   \* where construction stands / which call is running
    colId, clusterIdx,    \* CollectColumnInfo: loop positions
    nElems, onDiskSize,   \* CollectColumnInfo: per-column accumulators
    stack,                \* CollectFieldInfo: call frames, innermost last
    fieldIdQueue, colIds, \* GetColumnsForFieldTree: locals
    ret                   \* outcome of the last call on the built inspector

vars == <<fDescriptor, fCompressionSettings, fOnDiskSize, fInMemorySize, fColumnInfo,
          fFieldInfo, pc, colId, clusterIdx, nElems, onDiskSize, stack,
          fieldIdQueue, colIds, ret>>

collectLocals == <<colId, clusterIdx, nElems, onDiskSize>>
queryLocals == <<fieldIdQueue, colIds, ret>>
tables == <<fColumnInfo, fFieldInfo>>
totals == <<fOnDiskSize, fInMemorySize>>

NoRet == [op |-> "none", arg |-> 0, status |-> "none", value |-> 0]

\* std::map::emplace: inserts only when the key is absent
Emplace(map, key, value) ==
    IF key \in DOMAIN map THEN map ELSE map @@ (key :> value)

\* State after the constructor: the descriptor is cloned, nothing is collected.
Init ==
    /\ fDescriptor \in Descriptors
    /\ fCompressionSettings = kUnsetCompression
    /\ fOnDiskSize \in {0, 1000}
    /\ fInMemorySize = fOnDiskSize
    /\ fColumnInfo = <<>>
    /\ fFieldInfo = <<>>
    /\ pc = "Create"
    /\ colId = 0 /\ clusterIdx = 0 /\ nElems = 0 /\ onDiskSize = 0
    /\ stack = <<>>
    /\ fieldIdQueue = <<>> /\ colIds = <<>>
    /\ ret = NoRet

\* ------------------------------------------------------- CollectColumnInfo
\* SumPageBytes that stops after the first page of the range
SumPageBytesFirstOnly(pages) ==
    IF pages = <<>> THEN 0 ELSE Head(pages).fBytesOnStorage

RECURSIVE SumPageBytes(_)
\* lines 70-72: the bytes on storage of the pages of one page range
SumPageBytes(pages) ==
    IF pages = <<>> THEN 0
    ELSE Head(pages).fBytesOnStorage + SumPageBytes(Tail(pages))

RECURSIVE SumPageMemory(_, _)
\* lines 70, 73: page.fNElements * elemSize over the pages of one page range
SumPageMemory(pages, elemSize) ==
    IF pages = <<>> THEN 0
    ELSE Head(pages).fNElements * elemSize + SumPageMemory(Tail(pages), elemSize)

\* CompressionAssertFails that lets a range reporting the unset value pass
CompressionAssertSkipsUnset(current, reported) ==
    current # kUnsetCompression /\ reported # kUnsetCompression /\ reported # current

\* line 62-66: TRUE when the assertion on the compression settings fails
CompressionAssertFails(current, reported) ==
    current # kUnsetCompression /\ reported # current

\* line 62-63: the setting kept after a visit that passes
CompressionAfterVisit(current, reported) ==
    IF current = kUnsetCompression THEN reported ELSE current

RColumnInfo(colDesc, diskSize, elemSize, nElements) ==
    [descriptor |-> colDesc, fOnDiskSize |-> diskSize, fElementSize |-> elemSize,
     fNElements |-> nElements]

\* RColumnInfo::GetInMemorySize
ColumnInMemorySize(colInfo) == colInfo.fElementSize * colInfo.fNElements

\* lines 41-42 and the loop heads
CollectColumnInfoBegin ==
    /\ pc = "Create"
    /\ pc' = "CollectColumnInfo"
    /\ fOnDiskSize' = 0
    /\ fInMemorySize' = 0
    /\ colId' = 0 /\ clusterIdx' = 0 /\ nElems' = 0 /\ onDiskSize' = 0
    /\ UNCHANGED <<fDescriptor, fCompressionSettings, tables, stack, queryLocals>>

\* lines 54-75: one iteration of the cluster loop for the current column
VisitCluster ==
    /\ pc = "CollectColumnInfo"
    /\ colId < GetNPhysicalColumns(fDescriptor)
    /\ clusterIdx < fDescriptor.nClusters
    /\ IF ~ContainsColumn(fDescriptor, clusterIdx, colId)
       THEN /\ clusterIdx' = clusterIdx + 1
            /\ UNCHANGED <<pc, nElems, onDiskSize, fCompressionSettings, totals, colId>>
       ELSE LET columnRange == GetColumnRange(fDescriptor, clusterIdx, colId)
                pages == GetPageRange(fDescriptor, clusterIdx, colId)
                elemSize == ElemSize(fDescriptor.columns[colId].type)
            IN /\ nElems' = nElems + columnRange.fNElements
               /\ IF CompressionAssertFails(fCompressionSettings,
                                            columnRange.fCompressionSettings)
                  THEN \* R__ASSERT fails: fatal, the process ends here
                       /\ pc' = "aborted"
                       /\ UNCHANGED <<onDiskSize, fCompressionSettings, totals,
                                      colId, clusterIdx>>
                  ELSE /\ fCompressionSettings' =
                              CompressionAfterVisit(fCompressionSettings,
                                                    columnRange.fCompressionSettings)
                       /\ onDiskSize' = onDiskSize + SumPageBytes(pages)
                       /\ fOnDiskSize' = fOnDiskSize + SumPageBytes(pages)
                       /\ fInMemorySize' = fInMemorySize + SumPageMemory(pages, elemSize)
                       /\ clusterIdx' = clusterIdx + 1
                       /\ UNCHANGED <<pc, colId>>
    /\ UNCHANGED <<fDescriptor, tables, stack, queryLocals>>

\* line 77 and the head of the next iteration of the column loop (lines 44-52)
EmplaceColumnInfo ==
    /\ pc = "CollectColumnInfo"
    /\ colId < GetNPhysicalColumns(fDescriptor)
    /\ clusterIdx = fDescriptor.nClusters
    /\ fColumnInfo' = Emplace(fColumnInfo, colId,
                              RColumnInfo(fDescriptor.columns[colId], onDiskSize,
                                          ElemSize(fDescriptor.columns[colId].type),
                                          nElems))
    /\ colId' = colId + 1
    /\ clusterIdx' = 0 /\ nElems' = 0 /\ onDiskSize' = 0
    /\ UNCHANGED <<fDescriptor, fCompressionSettings, totals, fFieldInfo, pc, stack,
                   queryLocals>>


\* ------------------------------------------------------------ GetColumnInfo
\* line 210: the guard that rejects a physical column id
ColumnIdRejected(physicalColumnId) ==
    physicalColumnId > GetNPhysicalColumns(fDescriptor)

\* lines 207-215; fColumnInfo.at throws std::out_of_range for an absent key
GetColumnInfo(physicalColumnId) ==
    IF ColumnIdRejected(physicalColumnId)
    THEN [status |-> "RException: No column with physical ID", value |-> 0]
    ELSE IF physicalColumnId \in DOMAIN fColumnInfo
    THEN [status |-> "ok", value |-> fColumnInfo[physicalColumnId]]
    ELSE [status |-> "std::out_of_range", value |-> 0]

\* -------------------------------------------------------- CollectFieldInfo
RFieldTreeInfo(fieldDesc, diskSize, memSize) ==
    [descriptor |-> fieldDesc, fOnDiskSize |-> diskSize, fInMemorySize |-> memSize]

\* line 85: the columns the loop over a field's columns visits
FieldColumns(fieldId) == GetColumnIterable(fDescriptor, fieldId)

RECURSIVE SumColumnsOnDisk(_)
\* lines 85-87 over a sequence of column descriptors
SumColumnsOnDisk(cols) ==
    IF cols = <<>> THEN 0
    ELSE GetColumnInfo(Head(cols).physicalId).value.fOnDiskSize
         + SumColumnsOnDisk(Tail(cols))

RECURSIVE SumColumnsInMemory(_)
\* lines 85-88 over a sequence of column descriptors
SumColumnsInMemory(cols) ==
    IF cols = <<>> THEN 0
    ELSE ColumnInMemorySize(GetColumnInfo(Head(cols).physicalId).value)
         + SumColumnsInMemory(Tail(cols))

\* TRUE when a GetColumnInfo call of lines 85-89 throws
FieldColumnsThrow(fieldId) ==
    \E i \in DOMAIN FieldColumns(fieldId) :
        GetColumnInfo(FieldColumns(fieldId)[i].physicalId).status # "ok"

\* lines 82-89: the frame of a call once its own columns are summed
NewFrame(fieldId) ==
    [fieldId |-> fieldId,
     onDiskSize |-> SumColumnsOnDisk(FieldColumns(fieldId)),
     inMemSize |-> SumColumnsInMemory(FieldColumns(fieldId)),
     next |-> 1]

\* line 91: the sub-fields the loop of a call visits
SubFields(fieldId) == GetFieldIterable(fDescriptor, fieldId)

\* AddSubField with the in-memory size of the sub-field left out
AddSubFieldDiskOnly(frame, subFieldInfo) ==
    [frame EXCEPT !.onDiskSize = @ + subFieldInfo.fOnDiskSize,
                  !.next = @ + 1]

\* lines 96-97: the caller's frame after a recursive call returned subFieldInfo
AddSubField(frame, subFieldInfo) ==
    [frame EXCEPT !.onDiskSize = @ + subFieldInfo.fOnDiskSize,
                  !.inMemSize = @ + subFieldInfo.fInMemorySize,
                  !.next = @ + 1]

\* a call of CollectFieldInfo starts: either it throws or its frame is pushed
CallCollectFieldInfo(fieldId, callers) ==
    IF FieldColumnsThrow(fieldId)
    THEN pc' = "failed" /\ stack' = <<>>
    ELSE pc' = "CollectFieldInfo" /\ stack' = Append(callers, NewFrame(fieldId))

\* Create, lines 136-137: the column pass is over, the root call starts
CollectFieldInfoRoot ==
    /\ pc = "CollectColumnInfo"
    /\ colId = GetNPhysicalColumns(fDescriptor)
    /\ CallCollectFieldInfo(GetFieldZeroId(fDescriptor), <<>>)
    /\ UNCHANGED <<fDescriptor, fCompressionSettings, totals, tables, collectLocals,
                   queryLocals>>

\* lines 91-94: the innermost call recurses into its next sub-field
CollectFieldInfoDescend ==
    /\ pc = "CollectFieldInfo"
    /\ LET top == stack[Len(stack)]
           subs == SubFields(top.fieldId)
       IN /\ top.next <= Len(subs)
          /\ CallCollectFieldInfo(subs[top.next], stack)
    /\ UNCHANGED <<fDescriptor, fCompressionSettings, totals, tables, collectLocals,
                   queryLocals>>

\* lines 100-102, then lines 96-97 in the caller (or the return into Create)
CollectFieldInfoReturn ==
    /\ pc = "CollectFieldInfo"
    /\ LET top == stack[Len(stack)]
           fieldInfo == RFieldTreeInfo(GetFieldDescriptor(fDescriptor, top.fieldId),
                                       top.onDiskSize, top.inMemSize)
       IN /\ top.next > Len(SubFields(top.fieldId))
          /\ fFieldInfo' = Emplace(fFieldInfo, top.fieldId, fieldInfo)
          /\ IF Len(stack) = 1
             THEN stack' = <<>> /\ pc' = "ready"
             ELSE /\ stack' = [SubSeq(stack, 1, Len(stack) - 1) EXCEPT
                                 ![Len(stack) - 1] = AddSubField(@, fieldInfo)]
                  /\ UNCHANGED pc
    /\ UNCHANGED <<fDescriptor, fCompressionSettings, totals, fColumnInfo,
                   collectLocals, queryLocals>>

\* ------------------------------------------------------------ query surface
QueryColumnIds == 0..(GetNPhysicalColumns(fDescriptor) + 2)
QueryFieldIds == 0..(GetNFields(fDescriptor) + 1)
QueryTypeNames == {"", "double", "MyStruct", "std::string"}

\* FieldIdRejected with the comparison of line 210
FieldIdRejectedStrict(fieldId) == fieldId > GetNFields(fDescriptor)

\* line 220: the guard that rejects a field id
FieldIdRejected(fieldId) == fieldId >= GetNFields(fDescriptor)

\* lines 217-225
GetFieldInfo(fieldId) ==
    IF FieldIdRejected(fieldId)
    THEN [status |-> "RException: No field with ID", value |-> 0]
    ELSE IF fieldId \in DOMAIN fFieldInfo
    THEN [status |-> "ok", value |-> fFieldInfo[fieldId]]
    ELSE [status |-> "std::out_of_range", value |-> 0]

\* TypeCountSkips that tests for a root entry instead of a child of the root
TypeCountSkipsNonRoot(fldInfo, includeSubFields) ==
    /\ ~includeSubFields
    /\ fldInfo.descriptor.id # GetFieldZeroId(fDescriptor)

\* line 182: TRUE when the loop skips the entry
TypeCountSkips(fldInfo, includeSubFields) ==
    /\ ~includeSubFields
    /\ fldInfo.descriptor.parentId # GetFieldZeroId(fDescriptor)

\* lines 177-192
GetFieldTypeCount(typeName, includeSubFields) ==
    Cardinality({fldId \in DOMAIN fFieldInfo :
                    /\ ~TypeCountSkips(fFieldInfo[fldId], includeSubFields)
                    /\ typeName = fFieldInfo[fldId].descriptor.typeName})

CallGetColumnInfo ==
    /\ pc = "ready"
    /\ \E id \in QueryColumnIds :
          ret' = [op |-> "GetColumnInfo", arg |-> id,
                  status |-> GetColumnInfo(id).status, value |-> GetColumnInfo(id).value]
    /\ UNCHANGED <<fDescriptor, fCompressionSettings, totals, tables, pc, collectLocals,
                   stack, fieldIdQueue, colIds>>

CallGetFieldInfo ==
    /\ pc = "ready"
    /\ \E id \in QueryFieldIds :
          ret' = [op |-> "GetFieldInfo", arg |-> id,
                  status |-> GetFieldInfo(id).status, value |-> GetFieldInfo(id).value]
    /\ UNCHANGED <<fDescriptor, fCompressionSettings, totals, tables, pc, collectLocals,
                   stack, fieldIdQueue, colIds>>

CallGetFieldTypeCount ==
    /\ pc = "ready"
    /\ \E typeName \in QueryTypeNames, includeSubFields \in BOOLEAN :
          ret' = [op |-> "GetFieldTypeCount",
                  arg |-> <<typeName, includeSubFields>>,
                  status |-> "ok",
                  value |-> GetFieldTypeCount(typeName, includeSubFields)]
    /\ UNCHANGED <<fDescriptor, fCompressionSettings, totals, tables, pc, collectLocals,
                   stack, fieldIdQueue, colIds>>

\* --------------------------------------------------- GetColumnsForFieldTree
\* NonAliasPhysicalIds without the alias test of line 116
AllPhysicalIds(cols) ==
    [i \in 1..Len(cols) |-> cols[i].physicalId]

RECURSIVE NonAliasPhysicalIds(_)
\* lines 115-121 over a sequence of column descriptors
NonAliasPhysicalIds(cols) ==
    IF cols = <<>> THEN <<>>
    ELSE (IF Head(cols).isAlias THEN <<>> ELSE <<Head(cols).physicalId>>)
         \o NonAliasPhysicalIds(Tail(cols))

\* lines 123-125: the queue after the sub-fields of currId are pushed
PushSubFields(queue, currId) == queue \o GetFieldIterable(fDescriptor, currId)

\* lines 108-109
GetColumnsForFieldTreeBegin ==
    /\ pc = "ready"
    /\ \E fieldId \in 0..(GetNFields(fDescriptor) - 1) :
          /\ fieldIdQueue' = <<fieldId>>
          /\ ret' = [op |-> "GetColumnsForFieldTree", arg |-> fieldId,
                     status |-> "running", value |-> 0]
    /\ colIds' = <<>>
    /\ pc' = "GetColumnsForFieldTree"
    /\ UNCHANGED <<fDescriptor, fCompressionSettings, totals, tables, collectLocals,
                   stack>>

\* lines 111-126: one iteration of the while loop
GetColumnsForFieldTreeStep ==
    /\ pc = "GetColumnsForFieldTree"
    /\ fieldIdQueue # <<>>
    /\ LET currId == Head(fieldIdQueue)
       IN /\ colIds' = colIds \o NonAliasPhysicalIds(GetColumnIterable(fDescriptor, currId))
          /\ fieldIdQueue' = PushSubFields(Tail(fieldIdQueue), currId)
    /\ UNCHANGED <<fDescriptor, fCompressionSettings, totals, tables, pc, collectLocals,
                   stack, ret>>

\* line 128
GetColumnsForFieldTreeReturn ==
    /\ pc = "GetColumnsForFieldTree"
    /\ fieldIdQueue = <<>>
    /\ ret' = [ret EXCEPT !.status = "ok", !.value = colIds]
    /\ colIds' = <<>>
    /\ pc' = "ready"
    /\ UNCHANGED <<fDescriptor, fCompressionSettings, totals, tables, collectLocals,
                   stack, fieldIdQueue>>

\* ------------------------------------------------------------ specification
Next ==
    \/ CollectColumnInfoBegin
    \/ VisitCluster
    \/ EmplaceColumnInfo
    \/ CollectFieldInfoRoot
    \/ CollectFieldInfoDescend
    \/ CollectFieldInfoReturn
    \/ CallGetColumnInfo
    \/ CallGetFieldInfo
    \/ CallGetFieldTypeCount
    \/ GetColumnsForFieldTreeBegin
    \/ GetColumnsForFieldTreeStep
    \/ GetColumnsForFieldTreeReturn

Spec == Init /\ [][Next]_vars


\* ---------------------------------------------- what the descriptor implies
RECURSIVE SumFn(_, _)
\* the sum of f[x] over the finite set S
SumFn(f, S) ==
    IF S = {} THEN 0
    ELSE LET x == CHOOSE y \in S : TRUE IN f[x] + SumFn(f, S \ {x})

Fields == 0..(fDescriptor.nFields - 1)
PhysicalIds == 0..(fDescriptor.nPhysical - 1)
Clusters == 0..(fDescriptor.nClusters - 1)
Cell(cl, c) == fDescriptor.cells[<<cl, c>>]
ClustersWith(c) == {cl \in Clusters : Cell(cl, c).contains}

\* bytes on storage of all pages of column c
PagesBytes(c) ==
    SumFn([cl \in Clusters |->
             SumFn([i \in DOMAIN Cell(cl, c).fPageInfos |->
                      Cell(cl, c).fPageInfos[i].fBytesOnStorage],
                   DOMAIN Cell(cl, c).fPageInfos)],
          ClustersWith(c))

\* elements of all pages of column c
PagesElements(c) ==
    SumFn([cl \in Clusters |->
             SumFn([i \in DOMAIN Cell(cl, c).fPageInfos |->
                      Cell(cl, c).fPageInfos[i].fNElements],
                   DOMAIN Cell(cl, c).fPageInfos)],
          ClustersWith(c))

\* elements of column c by its column ranges
RangesElements(c) ==
    SumFn([cl \in Clusters |-> Cell(cl, c).fNElements], ClustersWith(c))

ColumnsDirectlyUnder(f) ==
    {c \in DOMAIN fDescriptor.columns : fDescriptor.columns[c].fieldId = f}
ChildrenOf(f) == {g \in Fields : fDescriptor.parentId[g] = f}

Built == pc \in {"ready", "GetColumnsForFieldTree"}
ColumnPassOver == pc \in {"CollectFieldInfo", "ready", "GetColumnsForFieldTree", "failed"}


\* ------------------------------------------------------------------ claims

\* C1: every recorded field aggregate is the sum over the field's direct columns
\* plus the aggregates of its direct sub-fields, on disk and in memory (a leaf
\* field: its direct columns only).
C1_FieldAggregate ==
    \A f \in DOMAIN fFieldInfo :
        /\ ChildrenOf(f) \subseteq DOMAIN fFieldInfo
        /\ fFieldInfo[f].fOnDiskSize =
              SumFn([c \in ColumnsDirectlyUnder(f) |->
                       fColumnInfo[fDescriptor.columns[c].physicalId].fOnDiskSize],
                    ColumnsDirectlyUnder(f))
              + SumFn([g \in ChildrenOf(f) |-> fFieldInfo[g].fOnDiskSize], ChildrenOf(f))
        /\ fFieldInfo[f].fInMemorySize =
              SumFn([c \in ColumnsDirectlyUnder(f) |->
                       ColumnInMemorySize(fColumnInfo[fDescriptor.columns[c].physicalId])],
                    ColumnsDirectlyUnder(f))
              + SumFn([g \in ChildrenOf(f) |-> fFieldInfo[g].fInMemorySize], ChildrenOf(f))

\* C1 witness: a built inspector with a field that owns columns and has a
\* sub-field of non-zero size, and with a leaf field that owns a column.
C1_Witness ==
    /\ pc = "ready"
    /\ \E f \in Fields, g \in Fields :
          /\ fDescriptor.parentId[g] = f
          /\ ColumnsDirectlyUnder(f) # {}
          /\ ColumnsDirectlyUnder(g) # {}
          /\ ChildrenOf(g) = {}
          /\ fFieldInfo[g].fInMemorySize > 0
          /\ fFieldInfo[f].fOnDiskSize > fFieldInfo[g].fOnDiskSize

\* C2 as claimed: the root field's aggregate is the sum of the on-disk sizes of
\* all physical columns, alias columns or not.
C2_RootIsWholeSource ==
    pc = "ready" =>
        fFieldInfo[GetFieldZeroId(fDescriptor)].fOnDiskSize =
            SumFn([c \in PhysicalIds |-> fColumnInfo[c].fOnDiskSize], PhysicalIds)

\* C3: once the column pass is over, the column table holds one entry per
\* physical column id, with the bytes of all pages of the clusters that contain
\* the column and with the element counts of those clusters' column ranges.
C3_ColumnStatistics ==
    /\ ColumnPassOver => DOMAIN fColumnInfo = PhysicalIds
    /\ \A c \in DOMAIN fColumnInfo :
          /\ fColumnInfo[c].descriptor = fDescriptor.columns[c]
          /\ fColumnInfo[c].descriptor.physicalId = c
          /\ fColumnInfo[c].fOnDiskSize = PagesBytes(c)
          /\ fColumnInfo[c].fNElements = RangesElements(c)

\* C3 witness: two clusters; one column in both, with two pages in one of
\* them; another column missing from a cluster.
C3_Witness ==
    /\ pc = "ready"
    /\ fDescriptor.nClusters = 2
    /\ \E c \in PhysicalIds, d \in PhysicalIds :
          /\ ClustersWith(c) = Clusters
          /\ \E cl \in Clusters : Len(Cell(cl, c).fPageInfos) = 2
          /\ ClustersWith(d) # Clusters
          /\ fColumnInfo[d].fOnDiskSize > 0


RECURSIVE SubtreeSize(_)
\* number of fields in the subtree of field f
SubtreeSize(f) == 1 + SumFn([g \in ChildrenOf(f) |-> SubtreeSize(g)], ChildrenOf(f))

\* fields still to be dequeued by GetColumnsForFieldTree, given its queue
QueueWork(queue) ==
    SumFn([i \in DOMAIN queue |-> SubtreeSize(queue[i])], DOMAIN queue)

NonAliasColumnIds ==
    {fDescriptor.columns[c].physicalId :
        c \in {d \in DOMAIN fDescriptor.columns : ~fDescriptor.columns[d].isAlias}}

C4_Result ==
    (ret.op = "GetColumnsForFieldTree" /\ ret.status = "ok"
        /\ ret.arg = GetFieldZeroId(fDescriptor)) =>
        /\ {ret.value[i] : i \in DOMAIN ret.value} = NonAliasColumnIds
        /\ \A i \in DOMAIN ret.value, j \in DOMAIN ret.value :
              ret.value[i] = ret.value[j] => i = j

C4_Progress ==
    (pc = "GetColumnsForFieldTree" /\ pc' = "GetColumnsForFieldTree") =>
        QueueWork(fieldIdQueue') < QueueWork(fieldIdQueue)

\* C4: GetColumnsForFieldTree on the root field returns every non-alias physical
\* column id exactly once and nothing else, and it terminates: every iteration of
\* its loop leaves strictly fewer fields to dequeue.
C4_ColumnsUnderRoot == []C4_Result /\ [][C4_Progress]_vars

\* C4 witness: the call on the root returned, for a nested schema (a field two
\* levels below the root owns a column) that also has an alias column.
C4_Witness ==
    /\ pc = "ready"
    /\ ret.op = "GetColumnsForFieldTree" /\ ret.status = "ok"
    /\ ret.arg = GetFieldZeroId(fDescriptor)
    /\ Len(ret.value) >= 2
    /\ \E c \in DOMAIN fDescriptor.columns : fDescriptor.columns[c].isAlias
    /\ \E c \in DOMAIN fDescriptor.columns :
          /\ ~fDescriptor.columns[c].isAlias
          /\ fDescriptor.parentId[fDescriptor.columns[c].fieldId] \notin
                {kInvalidDescriptorId, GetFieldZeroId(fDescriptor)}

\* C5 as claimed: a lookup with an id at or past the physical column count
\* fails with the inspector's "No column with physical ID" error.
C5_ColumnLookupRejectsPastEnd ==
    (ret.op = "GetColumnInfo" /\ ret.arg >= GetNPhysicalColumns(fDescriptor)) =>
        ret.status = "RException: No column with physical ID"

\* the visited column ranges, in visiting order (column by column, and for
\* each column cluster by cluster), as <<column, cluster>>
VisitedBefore(col, cl) ==
    {x \in PhysicalIds \X Clusters :
        /\ Cell(x[2], x[1]).contains
        /\ (x[1] < col \/ (x[1] = col /\ x[2] < cl))}
Visited ==
    IF pc = "aborted" THEN VisitedBefore(colId, clusterIdx + 1)
    ELSE VisitedBefore(colId, clusterIdx)
Earlier(x, y) == x[1] < y[1] \/ (x[1] = y[1] /\ x[2] < y[2])
SettingOf(x) == Cell(x[2], x[1]).fCompressionSettings

\* C6 as claimed: a pass that visits two column ranges with different
\* compression settings (the unset value -1 counted as a setting) fails, so a
\* pass that completed visited ranges of one setting only.
C6_AnyTwoDifferentSettingsFail ==
    ColumnPassOver => \A x \in Visited, y \in Visited : SettingOf(x) = SettingOf(y)

\* C6 amended: the pass aborts exactly when a visited range reports a setting
\* that differs from the first setting other than -1 reported before it; ranges
\* that report -1 before any other setting are accepted.
C6_SettingsCheckedAfterFirstSet ==
    (pc = "aborted") <=>
        (\E x \in Visited, y \in Visited :
            /\ Earlier(x, y)
            /\ SettingOf(x) # kUnsetCompression
            /\ SettingOf(y) # SettingOf(x))

\* C6 witness: the pass aborted on a range reporting 7 after a range reported 5.
C6_Witness ==
    /\ pc = "aborted"
    /\ fCompressionSettings = 5
    /\ SettingOf(<<colId, clusterIdx>>) = 7

\* C7 as claimed: the recorded in-memory size of a column is the sum over its
\* pages of page element count x element size.
C7_ColumnMemoryIsPageSum ==
    \A c \in DOMAIN fColumnInfo :
        ColumnInMemorySize(fColumnInfo[c]) =
            PagesElements(c) * ElemSize(fDescriptor.columns[c].type)

\* C8: GetFieldInfo rejects every id at or past the field count with its own
\* error and, on a built inspector, returns for every smaller id the aggregate
\* recorded for that field: the descent from the root recorded every field.
C8_FieldLookup ==
    /\ Built => DOMAIN fFieldInfo = Fields
    /\ ret.op = "GetFieldInfo" =>
          IF ret.arg >= GetNFields(fDescriptor)
          THEN ret.status = "RException: No field with ID"
          ELSE /\ ret.status = "ok"
               /\ ret.value = fFieldInfo[ret.arg]
               /\ ret.value.descriptor = GetFieldDescriptor(fDescriptor, ret.arg)

\* C8 witness: a lookup of the last field id of a three-field schema succeeded.
C8_Witness ==
    /\ ret.op = "GetFieldInfo"
    /\ ret.arg = GetNFields(fDescriptor) - 1
    /\ ret.arg >= 2
    /\ ret.status = "ok"
    /\ ret.value.fOnDiskSize > 0

\* C9: GetFieldTypeCount without sub-fields counts the fields of that exact type
\* name whose parent is the root field; with sub-fields it counts all fields of
\* that type name.
C9_FieldTypeCount ==
    ret.op = "GetFieldTypeCount" =>
        ret.value =
            IF ret.arg[2]
            THEN Cardinality({f \in Fields : fDescriptor.typeName[f] = ret.arg[1]})
            ELSE Cardinality({f \in Fields :
                                 /\ fDescriptor.typeName[f] = ret.arg[1]
                                 /\ fDescriptor.parentId[f] = GetFieldZeroId(fDescriptor)})

\* C9 witness: a count without sub-fields that left out a nested field of the
\* type and counted a child of the root.
C9_Witness ==
    /\ ret.op = "GetFieldTypeCount"
    /\ ~ret.arg[2]
    /\ ret.value = 1
    /\ \E f \in Fields :
          /\ fDescriptor.typeName[f] = ret.arg[1]
          /\ fDescriptor.parentId[f] \notin {kInvalidDescriptorId, GetFieldZeroId(fDescriptor)}

\* C10 as claimed: after the pass both totals are the sums of the per-column
\* values of the column table.
C10_TotalsAreColumnSums ==
    ColumnPassOver =>
        /\ fOnDiskSize = SumFn([c \in PhysicalIds |-> fColumnInfo[c].fOnDiskSize],
                               PhysicalIds)
        /\ fInMemorySize =
              SumFn([c \in PhysicalIds |-> ColumnInMemorySize(fColumnInfo[c])],
                    PhysicalIds)

====
